---- MODULE Spec2Model ----
(***************************************************************************)
(* Model of mlflow/tracking/_model_registry/fluent.py: the paginated       *)
(* search functions, _get_logged_models_from_run, load_prompt and          *)
(* register_model, each driving a remote registry client.                  *)
(***************************************************************************)
EXTENDS Integers, Sequences, FiniteSets, TLC

(* ------------------------------------------------------------------ *)
(* Bounds of the model                                                 *)
(* ------------------------------------------------------------------ *)
\* largest number of items the remote listing holds
MaxItems == 3
\* largest max_results a caller passes
MaxResultsArg == 3
\* largest number of client calls one paginated operation is followed for
MaxCalls == 4

(* ------------------------------------------------------------------ *)
(* Program constants                                                   *)
(* ------------------------------------------------------------------ *)
\* imported from mlflow.store.model_registry (fluent.py lines 29-32); the
\* values are set outside this file and are scaled down here so that a
\* listing of MaxItems items spans several pages
SEARCH_MODEL_VERSION_MAX_RESULTS_DEFAULT == 3
SEARCH_REGISTERED_MODEL_MAX_RESULTS_DEFAULT == 2

\* Python's None, as a page token / as an integer argument
None == "None"
NoneInt == -1

Min(a, b) == IF a <= b THEN a ELSE b

\* Python truthiness of a page token: None and "" are falsy
Truthy(token) == token # None /\ token # ""

VARIABLES
    \* ---- the remote listing (registry backend) ----
    source,           \* the items the remote listing holds, in listing order
    \* ---- one paginated operation ----
    pc,               \* position of the caller's control flow
    fn,               \* the function of this module that was called
    max_results,      \* max_results the caller passed (NoneInt = absent)
    agg_max_results,  \* max_results handed to the aggregation
    max_results_per_page, \* per-call cap handed to the aggregation
    all_results,      \* items accumulated by the aggregation
    next_page_token,  \* cursor held by the aggregation
    source_run,       \* run_id of the source run (_get_logged_models_from_run)
    logged_models,    \* list accumulated by _get_logged_models_from_run
    page_token,       \* cursor held by _get_logged_models_from_run
    calls,            \* history: every client call made, with its outcome
    ret,              \* what the caller received
    \* ---- load_prompt ----
    registry_rev,     \* the prompt in the registry: 0 = not registered, else its revision
    cache,            \* lru_cache of _load_prompt_cached, least recently used first
    active_run,       \* whether active_run() yields a run
    active_model_id,  \* what get_active_model_id() yields
    active_trace,     \* whether get_active_trace_id() yields a trace id
    lp_pc,            \* position of the caller inside load_prompt
    load,             \* the load_prompt call in progress, or the last one made
    threads,          \* the link thread of each load_prompt call
    \* ---- register_model ----
    registered,       \* whether the registered model `name` exists in the registry
    versions,         \* number of model versions of `name` in the registry
    mv_tag,           \* the logged model's MLFLOW_MODEL_VERSIONS tag, "" when unset
    rm                \* the register_model call of each caller

pagingVars == <<source, pc, fn, max_results, agg_max_results, max_results_per_page, all_results,
                next_page_token, source_run, logged_models, page_token, calls, ret>>

promptVars == <<registry_rev, cache, active_run, active_model_id, active_trace,
                lp_pc, load, threads>>

registerVars == <<registered, versions, mv_tag, rm>>

vars == <<pagingVars, promptVars, registerVars>>

\* what the paginated operations leave alone, and what load_prompt leaves alone
nonPagingVars == <<promptVars, registerVars>>
nonPromptVars == <<pagingVars, registerVars>>
nonRegisterVars == <<pagingVars, promptVars>>

(* ------------------------------------------------------------------ *)
(* The remote listing                                                  *)
(* ------------------------------------------------------------------ *)
Runs == {"run1", "run2"}

\* an item of the listing: its identity and the run that produced it
Item(i, r) == [id |-> i, source_run_id |-> r]

Sources ==
    UNION { { [i \in 1..k |-> Item(i, f[i])] : f \in [1..k -> Runs] } : k \in 0..MaxItems }

\* the continuation token the remote hands out for "resume after item p"
TokenFor(p) == "tok" \o ToString(p)

\* the position a token handed back to the remote stands for
PosOf(token) ==
    IF Truthy(token)
    THEN CHOOSE p \in 0..MaxItems : TokenFor(p) = token
    ELSE 0

\* The pages the remote may answer a request with: at most `limit` items
\* (NoneInt: the remote's own page size) starting after the cursor position,
\* possibly fewer than asked for, with a continuation token or none.
Pages(limit, token) ==
    LET p    == PosOf(token)
        most == IF limit = NoneInt THEN Len(source) - p
                ELSE Min(limit, Len(source) - p)
    IN  UNION { { [kind |-> "page", items |-> SubSeq(source, p + 1, p + k), token |-> t] :
                    t \in {TokenFor(p + k), None, ""} } : k \in 0..most }

Raised == [kind |-> "raise", items |-> <<>>, token |-> None]

\* every outcome of one client call: a page, or an exception
ClientOutcomes(limit, token) == Pages(limit, token) \cup {Raised}

(* ------------------------------------------------------------------ *)
(* search_registered_models / search_model_versions / search_prompts   *)
(* ------------------------------------------------------------------ *)
SearchFns == {"search_registered_models", "search_model_versions", "search_prompts"}

\* the client request pagination_wrapper_func builds from its two arguments
\* variant: the cursor is not handed on to the client
pagination_wrapper_func_NoToken(number_to_get, token) ==
    [max_results |-> number_to_get, page_token |-> None]

\* variant: a fixed page size is asked for instead of number_to_get
pagination_wrapper_func_NoLimit(number_to_get, token) ==
    [max_results |-> SEARCH_MODEL_VERSION_MAX_RESULTS_DEFAULT, page_token |-> token]

pagination_wrapper_func(number_to_get, token) ==
    [max_results |-> number_to_get, page_token |-> token]

\* what pagination_wrapper_func hands back for a client outcome: the page
\* as returned, or the client's exception (there is no try/except)
\* variant: the client's exception is turned into an empty last page
pagination_wrapper_result_Swallow(outcome) ==
    IF outcome.kind = "raise"
    THEN [kind |-> "page", items |-> <<>>, token |-> None]
    ELSE outcome

pagination_wrapper_result(outcome) == outcome

\* the per-call cap each search function hands to the aggregation
\* variant: the two defaults are interchanged
per_call_cap_Swapped(f) ==
    IF f = "search_model_versions"
    THEN SEARCH_REGISTERED_MODEL_MAX_RESULTS_DEFAULT
    ELSE SEARCH_MODEL_VERSION_MAX_RESULTS_DEFAULT

per_call_cap(f) ==
    IF f = "search_model_versions"
    THEN SEARCH_MODEL_VERSION_MAX_RESULTS_DEFAULT
    ELSE SEARCH_REGISTERED_MODEL_MAX_RESULTS_DEFAULT

\* the max_results each search function hands to the aggregation
\* variant: max_results is not handed on
aggregation_max_results_Dropped(mr) == NoneInt

aggregation_max_results(mr) == mr

\* a search function is called: it starts the aggregation
search(f, mr) ==
    /\ pc = "idle"
    /\ fn' = f
    /\ max_results' = mr
    /\ agg_max_results' = aggregation_max_results(mr)
    /\ max_results_per_page' = per_call_cap(f)
    /\ all_results' = <<>>
    /\ next_page_token' = None
    /\ pc' = "loop"
    /\ UNCHANGED <<source, source_run, logged_models, page_token, calls, ret>>
    /\ UNCHANGED nonPagingVars

(* ---- get_results_from_paginated_fn (mlflow.utils) ---- *)
returns_all == agg_max_results = NoneInt

\* the aggregation goes on while the target count is not reached
LoopGuard == returns_all \/ Len(all_results) < agg_max_results

\* n = min(per_call_cap, remaining)
num_to_get ==
    LET remaining == IF returns_all THEN max_results_per_page
                     ELSE agg_max_results - Len(all_results)
    IN  Min(max_results_per_page, remaining)

CallRecord(api, req, outcome) ==
    [api |-> api, max_results |-> req.max_results, page_token |-> req.page_token,
     total_before |-> Len(all_results), outcome |-> outcome.kind,
     items |-> outcome.items, token |-> outcome.token]

\* one iteration: fetch a page, append its items, update the cursor
FetchPage ==
    /\ pc = "loop"
    /\ LoopGuard
    /\ Len(calls) < MaxCalls
    /\ LET req == pagination_wrapper_func(num_to_get, next_page_token)
       IN  \E o \in ClientOutcomes(req.max_results, req.page_token) :
             LET page == pagination_wrapper_result(o)
             IN  /\ page.kind = "page"
                 /\ calls' = Append(calls, CallRecord(fn, req, o))
                 /\ all_results' = all_results \o page.items
                 /\ IF Truthy(page.token)
                    THEN next_page_token' = page.token /\ pc' = "loop"
                    ELSE next_page_token' = next_page_token /\ pc' = "return"
    /\ UNCHANGED <<source, fn, max_results, agg_max_results, max_results_per_page, source_run,
                   logged_models, page_token, ret>>
    /\ UNCHANGED nonPagingVars

\* one iteration in which the page fetch raises: the exception leaves the
\* aggregation and the search function
FetchRaises ==
    /\ pc = "loop"
    /\ LoopGuard
    /\ Len(calls) < MaxCalls
    /\ LET req == pagination_wrapper_func(num_to_get, next_page_token)
       IN  \E o \in ClientOutcomes(req.max_results, req.page_token) :
             /\ pagination_wrapper_result(o).kind = "raise"
             /\ calls' = Append(calls, CallRecord(fn, req, o))
    /\ pc' = "done"
    /\ ret' = [kind |-> "exception", val |-> <<>>]
    /\ UNCHANGED <<source, fn, max_results, agg_max_results, max_results_per_page, all_results,
                   next_page_token, source_run, logged_models, page_token>>
    /\ UNCHANGED nonPagingVars

\* the target count is reached: the loop ends without a further fetch
LoopExit ==
    /\ pc = "loop"
    /\ ~LoopGuard
    /\ pc' = "return"
    /\ UNCHANGED <<source, fn, max_results, agg_max_results, max_results_per_page, all_results,
                   next_page_token, source_run, logged_models, page_token, calls, ret>>
    /\ UNCHANGED nonPagingVars

\* the aggregation returns the accumulated list, the search function returns it
Return ==
    /\ pc = "return"
    /\ ret' = [kind |-> "value", val |-> all_results]
    /\ pc' = "done"
    /\ UNCHANGED <<source, fn, max_results, agg_max_results, max_results_per_page, all_results,
                   next_page_token, source_run, logged_models, page_token, calls>>
    /\ UNCHANGED nonPagingVars

(* ------------------------------------------------------------------ *)
(* _get_logged_models_from_run                                         *)
(* ------------------------------------------------------------------ *)
\* the request of one loop iteration: no page size, the held cursor
\* variant: the cursor is not handed on to the client
search_logged_models_request_NoToken(token) ==
    [max_results |-> NoneInt, page_token |-> None]

search_logged_models_request(token) ==
    [max_results |-> NoneInt, page_token |-> token]

\* the models of a page that were produced by the source run
\* variant: the page is taken whole, as if the backend had filtered by run
FromRun_NoFilter(items, r) == items

FromRun(items, r) == SelectSeq(items, LAMBDA m : m.source_run_id = r)

_get_logged_models_from_run(r) ==
    /\ pc = "idle"
    /\ fn' = "_get_logged_models_from_run"
    /\ source_run' = r
    /\ logged_models' = <<>>
    /\ page_token' = None
    /\ pc' = "lm_loop"
    /\ UNCHANGED <<source, max_results, agg_max_results, max_results_per_page, all_results,
                   next_page_token, calls, ret>>
    /\ UNCHANGED nonPagingVars

LoggedModelsPage ==
    /\ pc = "lm_loop"
    /\ Len(calls) < MaxCalls
    /\ LET req == search_logged_models_request(page_token)
       IN  \E page \in Pages(req.max_results, req.page_token) :
             /\ calls' = Append(calls, CallRecord(fn, req, page))
             /\ logged_models' = logged_models \o FromRun(page.items, source_run)
             /\ IF ~Truthy(page.token)
                THEN page_token' = page_token /\ pc' = "lm_return"
                ELSE page_token' = page.token /\ pc' = "lm_loop"
    /\ UNCHANGED <<source, fn, max_results, agg_max_results, max_results_per_page, all_results,
                   next_page_token, source_run, ret>>
    /\ UNCHANGED nonPagingVars

LoggedModelsRaises ==
    /\ pc = "lm_loop"
    /\ Len(calls) < MaxCalls
    /\ LET req == search_logged_models_request(page_token)
       IN  calls' = Append(calls, CallRecord(fn, req, Raised))
    /\ pc' = "done"
    /\ ret' = [kind |-> "exception", val |-> <<>>]
    /\ UNCHANGED <<source, fn, max_results, agg_max_results, max_results_per_page, all_results,
                   next_page_token, source_run, logged_models, page_token>>
    /\ UNCHANGED nonPagingVars

LoggedModelsReturn ==
    /\ pc = "lm_return"
    /\ ret' = [kind |-> "value", val |-> logged_models]
    /\ pc' = "done"
    /\ UNCHANGED <<source, fn, max_results, agg_max_results, max_results_per_page, all_results,
                   next_page_token, source_run, logged_models, page_token, calls>>
    /\ UNCHANGED nonPagingVars

(* ------------------------------------------------------------------ *)
(* Specification of the paginated operations                           *)
(* ------------------------------------------------------------------ *)
MaxResultsArgs == {NoneInt} \cup 0..MaxResultsArg

\* no paginated operation in progress
PagingIdle ==
    /\ pc = "idle"
    /\ fn = "none"
    /\ max_results = NoneInt
    /\ agg_max_results = NoneInt
    /\ max_results_per_page = 0
    /\ all_results = <<>>
    /\ next_page_token = None
    /\ source_run = "run1"
    /\ logged_models = <<>>
    /\ page_token = None
    /\ calls = <<>>
    /\ ret = [kind |-> "pending", val |-> <<>>]

\* the prompt returned when none was found (Python's None)
NoPrompt == 0

\* the frame of a load_prompt call: its arguments, locals and effects
NewLoad(name_or_uri, allow_missing, link_to_model, model_id) ==
    [name_or_uri |-> name_or_uri, allow_missing |-> allow_missing,
     link_to_model |-> link_to_model, model_id |-> model_id,
     prompt |-> NoPrompt,       \* the local variable prompt
     contacts |-> 0,            \* registry lookups made by this call
     cache_at_start |-> <<>>,   \* the lru_cache as the call found it
     cached_result |-> NoneInt, \* what _load_prompt_cached returned, if it did
     uncached_seen |-> NoneInt, \* the registry's prompt at the uncached lookup
     run_link |-> "none",       \* link_prompt_version_to_run: none, linked, raised
     spawned |-> 0,             \* link threads started by this call
     traced |-> FALSE,          \* prompt registered with the active trace
     thread_at_end |-> "none",  \* state of the link thread when the call ended
     outcome |-> "pending"]     \* pending, prompt, none, exception

\* no load_prompt call made yet
NoLoad == [NewLoad("", FALSE, FALSE, None) EXCEPT !.outcome = "no call"]

\* no load_prompt call made, nothing cached
PromptIdle ==
    /\ registry_rev = 0
    /\ cache = <<>>
    /\ active_run = FALSE
    /\ active_model_id = None
    /\ active_trace = FALSE
    /\ lp_pc = "idle"
    /\ load = NoLoad
    /\ threads = <<>>

\* the concurrent callers of register_model
Callers == {"caller1", "caller2"}

\* the frame of a register_model call: its arguments, locals and effects
NewCall(model_uri, env_pack) ==
    [pc |-> "create_registered_model",
     model_uri |-> model_uri, env_pack |-> env_pack,
     create_outcome |-> "none", \* how client.create_registered_model ended
     artifacts |-> "not listed", \* the run's artifacts: not listed, MLmodel, no MLmodel
     n_logged |-> NoneInt,      \* len(logged_models), NoneInt when not searched
     model_id |-> None,         \* the local variable model_id
     source |-> model_uri,      \* the local variable source
     mv_calls |-> 0,            \* calls of client._create_model_version
     version |-> 0,             \* create_version_response.version, 0 before
     existing |-> <<>>,         \* the tag entries read by get_logged_model
     staged |-> "none",         \* stage_model_for_databricks_model_serving: none, ok, raise
     error |-> "none",          \* error code of the exception that left the call
     outcome |-> "pending"]     \* pending, returned, exception

NoCall == [NewCall("", None) EXCEPT !.pc = "idle"]

\* the MLFLOW_MODEL_VERSIONS tag of the logged model when it is not set
NoTag == [set |-> FALSE, entries |-> <<>>]

\* no register_model call made, nothing registered
RegisterIdle ==
    /\ registered = FALSE
    /\ versions = 0
    /\ mv_tag = NoTag
    /\ rm = [p \in Callers |-> NoCall]

InitPaging ==
    /\ source \in Sources
    /\ PagingIdle
    /\ PromptIdle
    /\ RegisterIdle

NextPaging ==
    \/ \E f \in SearchFns, mr \in MaxResultsArgs : search(f, mr)
    \/ FetchPage
    \/ FetchRaises
    \/ LoopExit
    \/ Return
    \/ \E r \in Runs : _get_logged_models_from_run(r)
    \/ LoggedModelsPage
    \/ LoggedModelsRaises
    \/ LoggedModelsReturn

SpecPaging == InitPaging /\ [][NextPaging]_vars

(* ------------------------------------------------------------------ *)
(* Properties of the paginated operations                              *)
(* ------------------------------------------------------------------ *)
IsSearch == fn \in SearchFns

\* the items of the pages served so far, concatenated in call order
RECURSIVE ConcatItems(_)
ConcatItems(cs) ==
    IF cs = <<>> THEN <<>>
    ELSE ConcatItems(SubSeq(cs, 1, Len(cs) - 1)) \o cs[Len(cs)].items

IsPrefix(s, t) == Len(s) <= Len(t) /\ s = SubSeq(t, 1, Len(s))

\* C1: when a search function returns and the pages served hold at most
\* max_results items (or max_results is absent), the list returned is the
\* concatenation of the served pages' items in page order, and it is a
\* prefix of the remote listing: nothing dropped, duplicated or reordered.
C1_ReturnsConcatenation ==
    (IsSearch /\ pc = "done" /\ ret.kind = "value"
        /\ (max_results = NoneInt \/ Len(ConcatItems(calls)) <= max_results))
    => /\ ret.val = ConcatItems(calls)
       /\ IsPrefix(ret.val, source)

\* pages [a,b] (token), [c] (no token), max_results absent: [a,b,c] returned
C1_Witness ==
    /\ IsSearch /\ pc = "done" /\ ret.kind = "value" /\ max_results = NoneInt
    /\ Len(calls) = 2
    /\ Len(calls[1].items) = 2 /\ Truthy(calls[1].token)
    /\ Len(calls[2].items) = 1 /\ ~Truthy(calls[2].token)
    /\ Len(ret.val) = 3

\* C2: when max_results is given, the accumulated list never holds more
\* than max_results items, during the aggregation and in the value returned.
C2_AtMostMaxResults ==
    (IsSearch /\ max_results # NoneInt)
    => /\ Len(all_results) <= max_results
       /\ (ret.kind = "value" => Len(ret.val) <= max_results)

\* max_results = 2 reached over two pages, the first shorter than requested
C2_Witness ==
    /\ IsSearch /\ pc = "done" /\ ret.kind = "value" /\ max_results = 2
    /\ Len(calls) = 2
    /\ calls[1].max_results = 2 /\ Len(calls[1].items) = 1
    /\ Len(ret.val) = 2

\* C3: every page fetch but the first follows a page that carried a
\* non-empty token, and every page fetch is made while fewer than
\* max_results items are accumulated.
C3_NoFetchAfterStop ==
    IsSearch =>
      \A i \in 1..Len(calls) :
        /\ i > 1 => (calls[i - 1].outcome = "page" /\ Truthy(calls[i - 1].token))
        /\ max_results # NoneInt => calls[i].total_before < max_results

\* pages [a,b] (token), max_results = 2: returned after exactly one fetch
C3_Witness ==
    /\ IsSearch /\ pc = "done" /\ ret.kind = "value" /\ max_results = 2
    /\ Len(calls) = 1 /\ Truthy(calls[1].token)
    /\ Len(ret.val) = 2 /\ Len(source) > 2

\* the cap the three search functions are documented to use
DocumentedCap(f) ==
    IF f = "search_model_versions"
    THEN SEARCH_MODEL_VERSION_MAX_RESULTS_DEFAULT
    ELSE SEARCH_REGISTERED_MODEL_MAX_RESULTS_DEFAULT

\* C4: each page fetch asks for min(cap, max_results - total so far) items
\* when max_results is given and for cap items when it is absent.
C4_RequestedCount ==
    IsSearch =>
      \A i \in 1..Len(calls) :
        calls[i].max_results =
          IF max_results = NoneInt THEN DocumentedCap(fn)
          ELSE Min(DocumentedCap(fn), max_results - calls[i].total_before)

\* a fetch that asks for the cap, then one that asks for the remainder
C4_Witness ==
    /\ IsSearch /\ max_results = 3 /\ Len(calls) = 2
    /\ DocumentedCap(fn) = 2
    /\ calls[1].max_results = 2
    /\ calls[2].total_before = 2 /\ calls[2].max_results = 1

\* C5: a page fetch that raises is the last client call of the operation,
\* and the caller receives the exception, not a list.
C5_ExceptionPropagates ==
    IsSearch =>
      \A i \in 1..Len(calls) :
        calls[i].outcome = "raise"
        => i = Len(calls) /\ pc = "done" /\ ret.kind = "exception"

\* the second fetch raises after a first page with items
C5_Witness ==
    /\ IsSearch /\ Len(calls) = 2
    /\ calls[1].outcome = "page" /\ Len(calls[1].items) > 0
    /\ calls[2].outcome = "raise"
    /\ pc = "done" /\ ret.kind = "exception"

\* C6: the first fetch of an operation passes no cursor, and each later
\* fetch passes exactly the token the previous page carried.
C6_CursorRoundTrip ==
    \A i \in 1..Len(calls) :
      calls[i].page_token = IF i = 1 THEN None ELSE calls[i - 1].token

\* _get_logged_models_from_run fetched three pages, each with its own cursor
C6_Witness ==
    /\ fn = "_get_logged_models_from_run" /\ Len(calls) = 3
    /\ calls[2].page_token = calls[1].token
    /\ calls[3].page_token = calls[2].token
    /\ calls[2].token # calls[1].token


\* the models among items whose source_run_id is r, in their order
RECURSIVE OfRun(_, _)
OfRun(items, r) ==
    IF items = <<>> THEN <<>>
    ELSE (IF Head(items).source_run_id = r THEN <<Head(items)>> ELSE <<>>)
         \o OfRun(Tail(items), r)

\* the last fetch made was answered with a page whose token is empty
LastPageHasNoToken ==
    /\ Len(calls) > 0
    /\ calls[Len(calls)].outcome = "page"
    /\ ~Truthy(calls[Len(calls)].token)

\* C16: _get_logged_models_from_run fetches on only while every page so far
\* carried a token, each time with the cursor of the page before; the first
\* page with an empty token ends the loop, the return being the one step
\* left; the list returned holds, in page order, exactly the models of the
\* fetched pages whose source_run_id is the run's.
C16_StopsAtEmptyToken ==
    fn = "_get_logged_models_from_run" =>
      /\ \A i \in 1..(Len(calls) - 1) :
           calls[i].outcome = "page" /\ Truthy(calls[i].token)
      /\ \A i \in 1..Len(calls) :
           calls[i].page_token = IF i = 1 THEN None ELSE calls[i - 1].token
      /\ LastPageHasNoToken => pc \in {"lm_return", "done"}
      /\ pc = "lm_return" => LastPageHasNoToken /\ ENABLED LoggedModelsReturn
      /\ (pc = "done" /\ ret.kind = "value")
           => /\ LastPageHasNoToken
              /\ ret.val = OfRun(ConcatItems(calls), source_run)

\* three pages fetched, the last one without a token; models of another
\* run were on them and are not in the list returned
C16_Witness ==
    /\ fn = "_get_logged_models_from_run" /\ pc = "done" /\ ret.kind = "value"
    /\ Len(calls) = 3 /\ calls[3].token = ""
    /\ Len(calls[1].items) > 0 /\ Len(calls[3].items) > 0
    /\ Len(ret.val) > 0
    /\ Len(ret.val) < Len(ConcatItems(calls))


(* ------------------------------------------------------------------ *)
(* load_prompt                                                         *)
(* ------------------------------------------------------------------ *)
\* largest number of load_prompt calls followed
MaxLoads == 2
\* largest revision the registered prompt goes through
MaxRev == 1

\* size of the lru_cache of _load_prompt_cached; read from the environment
\* at import (fluent.py line 767) and scaled down here so that entries are
\* evicted
MLFLOW_PROMPT_CACHE_MAX_SIZE == 1

PromptNames == {"my_prompt", "prompts:/my_prompt@production"}

\* "@" in name_or_uri
\* variant: the alias check is missing, every lookup goes through the cache
HasAlias_Never(name_or_uri) == FALSE

HasAlias(name_or_uri) == name_or_uri = "prompts:/my_prompt@production"

ModelIdArgs == {None, "", "m1"}

\* the number of the load_prompt call in progress, or of the last one made
cur == Len(threads)

\* client.load_prompt: the registered prompt, None when it is missing and
\* allow_missing is set, an exception when it is missing otherwise
client_load_prompt(allow_missing) ==
    IF registry_rev # 0 THEN [kind |-> "value", prompt |-> registry_rev]
    ELSE IF allow_missing THEN [kind |-> "value", prompt |-> NoPrompt]
    ELSE [kind |-> "raise", prompt |-> NoPrompt]

\* _load_prompt_not_cached: both of its branches end in client.load_prompt
_load_prompt_not_cached(name_or_uri, allow_missing) ==
    client_load_prompt(allow_missing)

(* ---- functools.lru_cache ---- *)
CacheKey(name_or_uri, allow_missing) ==
    [name_or_uri |-> name_or_uri, allow_missing |-> allow_missing]

CacheHas(key) == \E i \in 1..Len(cache) : cache[i].key = key

CacheGet(key) == cache[CHOOSE i \in 1..Len(cache) : cache[i].key = key].val

\* a hit makes the entry the most recently used
CacheTouch(key) ==
    Append(SelectSeq(cache, LAMBDA e : e.key # key), [key |-> key, val |-> CacheGet(key)])

\* a computed value is stored, the least recently used entry making room
CachePut(key, val) ==
    LET added == Append(cache, [key |-> key, val |-> val])
    IN  IF Len(added) > MLFLOW_PROMPT_CACHE_MAX_SIZE THEN Tail(added) ELSE added

\* model_id = model_id or get_active_model_id()
\* variant: the active model id is not consulted
resolved_model_id_NoFallback(model_id) == IF Truthy(model_id) THEN model_id ELSE None

resolved_model_id(model_id) == IF Truthy(model_id) THEN model_id ELSE active_model_id

\* the state _link_prompt_async leaves its thread in: the link made, or the
\* exception of link_prompt_version_to_model caught and logged
\* variant: no try/except around the link call
_link_prompt_async_NoExcept(outcome) == IF outcome = "raise" THEN "uncaught" ELSE "linked"

_link_prompt_async(outcome) == IF outcome = "raise" THEN "logged" ELSE "linked"

\* whether load_prompt, past link_thread.start(), holds back for a thread
\* in the given state: it never joins the thread
\* variant: the thread is joined before load_prompt returns
waits_for_link_thread_Join(state) == state = "started"

waits_for_link_thread(state) == FALSE

NoThread == [state |-> "none", link_calls |-> 0, link_outcome |-> "none"]

\* load_prompt is called
load_prompt(name_or_uri, allow_missing, link_to_model, model_id) ==
    /\ lp_pc = "idle"
    /\ Len(threads) < MaxLoads
    /\ load' = [NewLoad(name_or_uri, allow_missing, link_to_model, model_id)
                   EXCEPT !.cache_at_start = cache]
    /\ threads' = Append(threads, NoThread)
    /\ lp_pc' = IF HasAlias(name_or_uri) THEN "not_cached" ELSE "cached"
    /\ UNCHANGED <<registry_rev, cache, active_run, active_model_id, active_trace>>
    /\ UNCHANGED nonPromptVars

\* the call ends: with the prompt, with None, or with an exception
EndLoad(rec, outcome) ==
    [rec EXCEPT !.outcome = outcome, !.thread_at_end = threads[cur].state]

\* _load_prompt_cached(...) or _load_prompt_not_cached(...): where the call
\* goes with the value of the cached lookup
\* variant: the uncached lookup behind `or` is missing
after_cached_lookup_NoFallback(prompt) == "check_none"

after_cached_lookup(prompt) == IF prompt # NoPrompt THEN "check_none" ELSE "not_cached"

\* whether an exception of link_prompt_version_to_run leaves load_prompt: the
\* call is not inside a try block
\* variant: the call is wrapped in a try/except that logs the exception
link_prompt_version_to_run_propagates_Caught(outcome) == FALSE

link_prompt_version_to_run_propagates(outcome) == outcome = "raise"

\* _load_prompt_cached(...): a cache hit, or a registry lookup whose value
\* (None included, an exception excluded) is stored
LookupCached ==
    /\ lp_pc = "cached"
    /\ LET c   == load
           key == CacheKey(c.name_or_uri, c.allow_missing)
           hit == CacheHas(key)
           r   == IF hit THEN [kind |-> "value", prompt |-> CacheGet(key)]
                  ELSE _load_prompt_not_cached(c.name_or_uri, c.allow_missing)
           c2  == [c EXCEPT !.contacts = IF hit THEN @ ELSE @ + 1,
                            !.cached_result = IF r.kind = "raise" THEN @ ELSE r.prompt,
                            !.prompt = r.prompt]
       IN  IF r.kind = "raise"
           THEN /\ load' = EndLoad(c2, "exception")
                /\ lp_pc' = "idle"
                /\ cache' = cache
           ELSE /\ load' = c2
                /\ cache' = IF hit THEN CacheTouch(key) ELSE CachePut(key, r.prompt)
                /\ lp_pc' = after_cached_lookup(r.prompt)
    /\ UNCHANGED <<registry_rev, active_run, active_model_id, active_trace, threads>>
    /\ UNCHANGED nonPromptVars

\* _load_prompt_not_cached(...): a registry lookup
LookupNotCached ==
    /\ lp_pc = "not_cached"
    /\ LET c  == load
           r  == _load_prompt_not_cached(c.name_or_uri, c.allow_missing)
           c2 == [c EXCEPT !.contacts = @ + 1, !.uncached_seen = registry_rev,
                           !.prompt = r.prompt]
       IN  IF r.kind = "raise"
           THEN load' = EndLoad(c2, "exception") /\ lp_pc' = "idle"
           ELSE load' = c2 /\ lp_pc' = "check_none"
    /\ UNCHANGED <<registry_rev, cache, active_run, active_model_id, active_trace, threads>>
    /\ UNCHANGED nonPromptVars

\* if prompt is None: return
CheckNone ==
    /\ lp_pc = "check_none"
    /\ IF load.prompt = NoPrompt
       THEN load' = EndLoad(load, "none") /\ lp_pc' = "idle"
       ELSE load' = load /\ lp_pc' = "link_run"
    /\ UNCHANGED <<registry_rev, cache, active_run, active_model_id, active_trace, threads>>
    /\ UNCHANGED nonPromptVars

\* if run := active_run(): client.link_prompt_version_to_run(...), on the
\* caller's thread; its exception leaves load_prompt
LinkRun ==
    /\ lp_pc = "link_run"
    /\ LET c == load
       IN  IF active_run
           THEN \E o \in {"ok", "raise"} :
                  LET c2 == [c EXCEPT !.run_link = IF o = "raise" THEN "raised"
                                                   ELSE "linked"]
                  IN  IF link_prompt_version_to_run_propagates(o)
                      THEN /\ load' = EndLoad(c2, "exception")
                           /\ lp_pc' = "idle"
                      ELSE /\ load' = c2
                           /\ lp_pc' = "link_model"
           ELSE load' = load /\ lp_pc' = "link_model"
    /\ UNCHANGED <<registry_rev, cache, active_run, active_model_id, active_trace, threads>>
    /\ UNCHANGED nonPromptVars

\* if link_to_model: ... if model_id is not None: link_thread.start()
LinkModel ==
    /\ lp_pc = "link_model"
    /\ LET c == load
       IN  IF c.link_to_model /\ resolved_model_id(c.model_id) # None
           THEN /\ threads' = [threads EXCEPT ![cur].state = "started"]
                /\ load' = [load EXCEPT !.spawned = @ + 1]
           ELSE UNCHANGED <<threads, load>>
    /\ lp_pc' = "trace"
    /\ UNCHANGED <<registry_rev, cache, active_run, active_model_id, active_trace>>
    /\ UNCHANGED nonPromptVars

\* if trace_id := get_active_trace_id(): register_prompt(...); return prompt
TraceAndReturn ==
    /\ lp_pc = "trace"
    /\ ~waits_for_link_thread(threads[cur].state)
    /\ load' = EndLoad([load EXCEPT !.traced = active_trace], "prompt")
    /\ lp_pc' = "idle"
    /\ UNCHANGED <<registry_rev, cache, active_run, active_model_id, active_trace, threads>>
    /\ UNCHANGED nonPromptVars

\* the link thread of call c runs _link_prompt_async to its end
LinkThread(c) ==
    /\ threads[c].state = "started"
    /\ \E o \in {"ok", "raise"} :
         threads' = [threads EXCEPT ![c] = [state |-> _link_prompt_async(o),
                                            link_calls |-> @.link_calls + 1,
                                            link_outcome |-> o]]
    /\ UNCHANGED <<registry_rev, cache, active_run, active_model_id, active_trace,
                   lp_pc, load>>
    /\ UNCHANGED nonPromptVars

\* someone registers, changes or deletes the prompt in the registry
RegistryChange ==
    /\ \E r \in 0..MaxRev : r # registry_rev /\ registry_rev' = r
    /\ UNCHANGED <<cache, active_run, active_model_id, active_trace, lp_pc, load, threads>>
    /\ UNCHANGED nonPromptVars

InitPrompt ==
    /\ source = <<>>
    /\ PagingIdle
    /\ RegisterIdle
    /\ registry_rev \in {0, 1}
    /\ cache = <<>>
    /\ active_run \in BOOLEAN
    /\ active_model_id \in {None, "m2"}
    /\ active_trace \in BOOLEAN
    /\ lp_pc = "idle"
    /\ load = NoLoad
    /\ threads = <<>>

NextPrompt ==
    \/ \E n \in PromptNames, am \in BOOLEAN, ltm \in BOOLEAN, mid \in ModelIdArgs :
         load_prompt(n, am, ltm, mid)
    \/ LookupCached
    \/ LookupNotCached
    \/ CheckNone
    \/ LinkRun
    \/ LinkModel
    \/ TraceAndReturn
    \/ \E c \in 1..Len(threads) : LinkThread(c)
    \/ RegistryChange

SpecPrompt == InitPrompt /\ [][NextPrompt]_vars


(* ------------------------------------------------------------------ *)
(* Properties of load_prompt                                           *)
(* ------------------------------------------------------------------ *)
\* C7: when link_prompt_version_to_model raises in a link thread, the
\* thread ends with the exception caught and logged, the call that started
\* it does not end with an exception, and a call that started a link thread
\* ends by returning the prompt.
C7_LinkFailureAbsorbed ==
    /\ \A c \in 1..Len(threads) :
         threads[c].link_outcome = "raise" => threads[c].state = "logged"
    /\ (cur >= 1 /\ threads[cur].link_outcome = "raise")
       => load.outcome \in {"pending", "prompt"}
    /\ (cur >= 1 /\ threads[cur].state # "none" /\ lp_pc = "idle")
       => (load.outcome = "prompt" /\ load.prompt # NoPrompt)

\* the link raised before load_prompt returned, and load_prompt returned the prompt
C7_Witness ==
    /\ cur >= 1 /\ lp_pc = "idle"
    /\ threads[cur].link_outcome = "raise" /\ threads[cur].state = "logged"
    /\ load.thread_at_end = "logged"
    /\ load.outcome = "prompt" /\ load.prompt # NoPrompt

\* C8: once the link thread is started, load_prompt's return and the
\* thread's link call are both free to happen next, neither waiting for the
\* other: load_prompt can return while the link is not made.
C8_ReturnsWithoutWaiting ==
    (lp_pc = "trace" /\ threads[cur].state = "started")
    => (ENABLED TraceAndReturn /\ ENABLED LinkThread(cur))

\* load_prompt has returned the prompt and the link is still not made
C8_Witness ==
    /\ cur >= 1 /\ lp_pc = "idle" /\ load.outcome = "prompt"
    /\ load.thread_at_end = "started"
    /\ threads[cur].state = "started"

\* the other order: the link was made before load_prompt returned
C8_LinkBeforeReturn ==
    /\ cur >= 1 /\ lp_pc = "idle" /\ load.outcome = "prompt"
    /\ load.thread_at_end = "linked"

\* the model id a call is documented to link to: the explicit model_id,
\* else the active model id
DocumentedModelId(model_id) == IF Truthy(model_id) THEN model_id ELSE active_model_id

CallEnded == cur >= 1 /\ lp_pc = "idle"

\* C9 as stated: a call that has ended started exactly one link thread when
\* link_to_model was set, the prompt was found and a model id resolved, and
\* none otherwise; a link thread calls link_prompt_version_to_model at most once.
C9_Original ==
    /\ CallEnded =>
         load.spawned = IF /\ load.link_to_model
                           /\ load.prompt # NoPrompt
                           /\ DocumentedModelId(load.model_id) # None
                        THEN 1 ELSE 0
    /\ \A c \in 1..Len(threads) : threads[c].link_calls <= 1

\* C9 amended: ... exactly one link thread when link_to_model was set, the
\* prompt was found, link_prompt_version_to_run did not raise and a model id
\* resolved, and none otherwise; a link thread calls
\* link_prompt_version_to_model at most once.
C9_OneThreadPerCall ==
    /\ CallEnded =>
         load.spawned = IF /\ load.link_to_model
                           /\ load.prompt # NoPrompt
                           /\ load.run_link # "raised"
                           /\ DocumentedModelId(load.model_id) # None
                        THEN 1 ELSE 0
    /\ \A c \in 1..Len(threads) : threads[c].link_calls <= 1

\* a call without model_id linked to the active model: one thread, one link call
C9_Witness ==
    /\ CallEnded /\ load.outcome = "prompt"
    /\ load.link_to_model /\ load.model_id = None /\ active_model_id = "m2"
    /\ load.spawned = 1
    /\ threads[cur].link_calls = 1


\* "@" in the name_or_uri of a call, as the documentation words it
ContainsAt(name_or_uri) == name_or_uri = "prompts:/my_prompt@production"

\* the lookups of the current call are behind it
LookupsDone == load.outcome # "no call" /\ lp_pc \notin {"cached", "not_cached"}

\* C12: a call without "@" whose cached lookup yielded None goes on, in the
\* same call, to one uncached registry lookup and takes its result: the call
\* ends with None only when the registry had no prompt at that lookup, and
\* otherwise carries the prompt the registry had, also when an earlier call
\* cached the miss.
C12_MissFallsThrough ==
    (~ContainsAt(load.name_or_uri) /\ load.cached_result = NoPrompt)
    => /\ load.allow_missing
       /\ load.uncached_seen = NoneInt
            => lp_pc = "not_cached" /\ load.outcome = "pending"
       /\ load.uncached_seen # NoneInt
            => /\ load.prompt = load.uncached_seen
               /\ load.outcome = "none" => load.uncached_seen = NoPrompt
               /\ load.uncached_seen = NoPrompt
                    => load.outcome = "none" \/ lp_pc = "check_none"

\* the second call finds the miss the first one cached, and returns the
\* prompt registered in between
C12_Witness ==
    /\ cur = 2 /\ CallEnded
    /\ ~ContainsAt(load.name_or_uri)
    /\ \E i \in 1..Len(load.cache_at_start) :
         /\ load.cache_at_start[i].key = CacheKey(load.name_or_uri, load.allow_missing)
         /\ load.cache_at_start[i].val = NoPrompt
    /\ load.cached_result = NoPrompt
    /\ load.contacts = 1
    /\ load.outcome = "prompt" /\ load.prompt = 1

\* the key of the current call had a prompt, not None, in the cache when the
\* call began
CachedAtStart ==
    \E i \in 1..Len(load.cache_at_start) :
      /\ load.cache_at_start[i].key = CacheKey(load.name_or_uri, load.allow_missing)
      /\ load.cache_at_start[i].val # NoPrompt

CachedValueAtStart ==
    load.cache_at_start[CHOOSE i \in 1..Len(load.cache_at_start) :
        load.cache_at_start[i].key = CacheKey(load.name_or_uri, load.allow_missing)].val

\* C13: a call has contacted the registry exactly when its name_or_uri has
\* an "@" or its key had no prompt in the cache; a call with "@" leaves the
\* cache as it found it; a call whose key had a cached prompt makes no
\* registry lookup and carries that prompt, whatever the registry holds now.
C13_RegistryContacts ==
    load.outcome # "no call" =>
      /\ LookupsDone =>
           (load.contacts > 0 <=> (ContainsAt(load.name_or_uri) \/ ~CachedAtStart))
      /\ ContainsAt(load.name_or_uri) =>
           cache = load.cache_at_start /\ load.cached_result = NoneInt
      /\ (~ContainsAt(load.name_or_uri) /\ CachedAtStart) =>
           /\ load.contacts = 0
           /\ LookupsDone => load.prompt = CachedValueAtStart
           /\ load.outcome # "none"
           /\ load.outcome = "prompt" => load.prompt = CachedValueAtStart

\* a prompt cached by the first call, deleted from the registry since, is
\* returned by the second call without a lookup
C13_Witness ==
    /\ cur = 2 /\ CallEnded
    /\ ~ContainsAt(load.name_or_uri) /\ CachedAtStart
    /\ registry_rev = 0
    /\ load.contacts = 0
    /\ load.outcome = "prompt" /\ load.prompt = 1

\* C14: with a run active, a call that found its prompt makes the run link
\* inside the call, before the link thread is started and before the call
\* returns; when the run link raised, the call has ended with that
\* exception, without a link thread and without the prompt registered with
\* the active trace.
C14_RunLinkSynchronous ==
    load.outcome # "no call" =>
      /\ load.run_link = "raised" =>
           /\ lp_pc = "idle" /\ load.outcome = "exception"
           /\ load.spawned = 0 /\ threads[cur].state = "none"
           /\ ~load.traced
      /\ (active_run /\ (lp_pc \in {"link_model", "trace"} \/ load.outcome = "prompt"))
           => load.run_link = "linked"
      /\ (active_run /\ threads[cur].state # "none") => load.run_link = "linked"
      /\ ~active_run => load.run_link = "none"

\* the run link raised in a call that would have started a thread and
\* registered the prompt with the active trace
C14_Witness ==
    /\ CallEnded /\ active_run /\ active_trace
    /\ load.link_to_model /\ resolved_model_id(load.model_id) # None
    /\ load.prompt # NoPrompt
    /\ load.run_link = "raised" /\ load.outcome = "exception"
    /\ load.spawned = 0 /\ ~load.traced


(* ------------------------------------------------------------------ *)
(* register_model                                                      *)
(* ------------------------------------------------------------------ *)
ModelUris == {"runs:/run1/model", "models:/m1", "/local/model"}

\* RunsArtifactRepository.is_runs_uri
is_runs_uri(model_uri) == model_uri = "runs:/run1/model"

\* _parse_model_id_if_present: the model id of a models:/<model_id> URI
_parse_model_id_if_present(model_uri) ==
    IF model_uri = "models:/m1" THEN "m1" ELSE None

EnvPacks == {None, "databricks_model_serving"}

\* the error codes create_registered_model may fail with
CreateErrors == {"RESOURCE_ALREADY_EXISTS", "ALREADY_EXISTS", "INTERNAL_ERROR"}

\* the except clause around create_registered_model: whether an
\* MlflowException with this error code is passed over
\* variant: ALREADY_EXISTS is not passed over
create_error_tolerated_OnlyResource(error_code) ==
    error_code = "RESOURCE_ALREADY_EXISTS"

create_error_tolerated(error_code) ==
    error_code \in {"RESOURCE_ALREADY_EXISTS", "ALREADY_EXISTS"}

\* json.dumps of a list of {name, version} entries, and json.loads of the tag
json_dumps(entries) == [set |-> TRUE, entries |-> entries]
json_loads(tag) == tag.entries

\* the call of caller p ends with an exception
Raise(frame, error_code) ==
    [frame EXCEPT !.pc = "done", !.outcome = "exception", !.error = error_code]

\* register_model is called
register_model(p, model_uri, env_pack) ==
    /\ rm[p].pc = "idle"
    /\ rm' = [rm EXCEPT ![p] = NewCall(model_uri, env_pack)]
    /\ UNCHANGED <<registered, versions, mv_tag>>
    /\ UNCHANGED nonRegisterVars

\* try: client.create_registered_model(name) except MlflowException: ...
CreateRegisteredModel(p) ==
    /\ rm[p].pc = "create_registered_model"
    /\ \/ /\ ~registered
          /\ registered' = TRUE
          /\ rm' = [rm EXCEPT ![p].create_outcome = "ok", ![p].pc = "resolve_source"]
       \/ /\ \E e \in CreateErrors :
               /\ e \in {"RESOURCE_ALREADY_EXISTS", "ALREADY_EXISTS"} => registered
               /\ rm' = [rm EXCEPT ![p] =
                           IF create_error_tolerated(e)
                           THEN [@ EXCEPT !.create_outcome = e, !.pc = "resolve_source"]
                           ELSE Raise([@ EXCEPT !.create_outcome = e], e)]
          /\ UNCHANGED registered
    /\ UNCHANGED <<versions, mv_tag>>
    /\ UNCHANGED nonRegisterVars

AfterResolve(frame) ==
    IF frame.env_pack = "databricks_model_serving" THEN "pack_env"
    ELSE "create_model_version"

\* the checks on the logged models found for the run: the error raised, or
\* "ok" when a model id is picked
\* variant: the emptiness check is missing, logged_models[0] fails
logged_models_check_NoEmptyCheck(n, outputs_none) ==
    IF n = 0 THEN "IndexError"
    ELSE IF n > 1 /\ outputs_none THEN "INVALID_PARAMETER_VALUE"
    ELSE "ok"

logged_models_check(n, outputs_none) ==
    IF n = 0 THEN "NOT_FOUND"
    ELSE IF n > 1 /\ outputs_none THEN "INVALID_PARAMETER_VALUE"
    ELSE "ok"

\* the source and model_id of the model: from the run's artifacts, from the
\* run's logged models, or from the URI itself
ResolveSource(p) ==
    /\ rm[p].pc = "resolve_source"
    /\ LET f == rm[p]
       IN  IF is_runs_uri(f.model_uri)
           THEN \/ \* the run has an MLmodel file at the artifact path
                   rm' = [rm EXCEPT ![p] =
                            [f EXCEPT !.artifacts = "MLmodel",
                                      !.source = "underlying uri",
                                      !.model_id = _parse_model_id_if_present(f.model_uri),
                                      !.pc = AfterResolve(f)]]
                \/ \* it has none: n logged models of that name and run
                   \E n \in 0..2, outputs_none \in BOOLEAN :
                     LET g == [f EXCEPT !.artifacts = "no MLmodel", !.n_logged = n]
                         e == logged_models_check(n, outputs_none)
                     IN  rm' = [rm EXCEPT ![p] =
                                  IF e # "ok" THEN Raise(g, e)
                                  ELSE [g EXCEPT !.source = "models:/m1",
                                                 !.model_id = "m1",
                                                 !.pc = AfterResolve(f)]]
           ELSE rm' = [rm EXCEPT ![p] =
                         [f EXCEPT !.model_id = _parse_model_id_if_present(f.model_uri),
                                   !.pc = AfterResolve(f)]]
    /\ UNCHANGED <<registered, versions, mv_tag>>
    /\ UNCHANGED nonRegisterVars

\* with pack_env_for_databricks_model_serving(...): client.log_model_artifacts(...)
PackEnv(p) ==
    /\ rm[p].pc = "pack_env"
    /\ \E o \in {"ok", "raise"} :
         rm' = [rm EXCEPT ![p] = IF o = "raise" THEN Raise(@, "pack_env failed")
                                 ELSE [@ EXCEPT !.pc = "create_model_version"]]
    /\ UNCHANGED <<registered, versions, mv_tag>>
    /\ UNCHANGED nonRegisterVars

AfterTag(frame) ==
    IF frame.env_pack = "databricks_model_serving" THEN "stage" ELSE "return"

\* client._create_model_version(...)
CreateModelVersion(p) ==
    /\ rm[p].pc = "create_model_version"
    /\ LET f == rm[p]
       IN  \/ /\ versions' = versions + 1
              /\ rm' = [rm EXCEPT ![p] =
                          [f EXCEPT !.mv_calls = f.mv_calls + 1,
                                    !.version = versions + 1,
                                    !.pc = IF f.model_id # None THEN "get_logged_model"
                                           ELSE AfterTag(f)]]
           \/ /\ rm' = [rm EXCEPT ![p] =
                          Raise([f EXCEPT !.mv_calls = f.mv_calls + 1],
                                "create_model_version failed")]
              /\ UNCHANGED versions
    /\ UNCHANGED <<registered, mv_tag>>
    /\ UNCHANGED nonRegisterVars

\* model = client.get_logged_model(model_id): the tag value is read
GetLoggedModel(p) ==
    /\ rm[p].pc = "get_logged_model"
    /\ \/ rm' = [rm EXCEPT ![p] =
                   [@ EXCEPT !.existing = IF mv_tag.set THEN json_loads(mv_tag) ELSE <<>>,
                             !.pc = "set_logged_model_tags"]]
       \/ rm' = [rm EXCEPT ![p] = Raise(@, "get_logged_model failed")]
    /\ UNCHANGED <<registered, versions, mv_tag>>
    /\ UNCHANGED nonRegisterVars

\* client.set_logged_model_tags(model_id, {MLFLOW_MODEL_VERSIONS: json.dumps(new_value)})
SetLoggedModelTags(p) ==
    /\ rm[p].pc = "set_logged_model_tags"
    /\ LET f == rm[p]
           new_value == f.existing \o <<[name |-> "name", version |-> f.version]>>
       IN  \/ /\ mv_tag' = json_dumps(new_value)
              /\ rm' = [rm EXCEPT ![p].pc = AfterTag(f)]
           \/ /\ rm' = [rm EXCEPT ![p] = Raise(f, "set_logged_model_tags failed")]
              /\ UNCHANGED mv_tag
    /\ UNCHANGED <<registered, versions>>
    /\ UNCHANGED nonRegisterVars

\* whether an exception of stage_model_for_databricks_model_serving leaves
\* register_model: `except Exception` catches it and prints a message
\* variant: no try/except around the staging call
stage_model_for_databricks_model_serving_propagates_NoExcept(outcome) == outcome = "raise"

stage_model_for_databricks_model_serving_propagates(outcome) == FALSE

\* try: stage_model_for_databricks_model_serving(...) except Exception: eprint(...)
Stage(p) ==
    /\ rm[p].pc = "stage"
    /\ \E o \in {"ok", "raise"} :
         LET f == [rm[p] EXCEPT !.staged = o]
         IN  rm' = [rm EXCEPT ![p] =
                      IF stage_model_for_databricks_model_serving_propagates(o)
                      THEN Raise(f, "staging failed")
                      ELSE [f EXCEPT !.pc = "return"]]
    /\ UNCHANGED <<registered, versions, mv_tag>>
    /\ UNCHANGED nonRegisterVars

\* return create_version_response
ReturnVersion(p) ==
    /\ rm[p].pc = "return"
    /\ rm' = [rm EXCEPT ![p].pc = "done", ![p].outcome = "returned"]
    /\ UNCHANGED <<registered, versions, mv_tag>>
    /\ UNCHANGED nonRegisterVars

InitRegister ==
    /\ source = <<>>
    /\ PagingIdle
    /\ PromptIdle
    /\ registered \in BOOLEAN
    /\ versions = 0
    /\ mv_tag = NoTag
    /\ rm = [p \in Callers |-> NoCall]

NextRegister ==
    \/ \E p \in Callers, u \in ModelUris, e \in EnvPacks : register_model(p, u, e)
    \/ \E p \in Callers : CreateRegisteredModel(p)
    \/ \E p \in Callers : ResolveSource(p)
    \/ \E p \in Callers : PackEnv(p)
    \/ \E p \in Callers : CreateModelVersion(p)
    \/ \E p \in Callers : GetLoggedModel(p)
    \/ \E p \in Callers : SetLoggedModelTags(p)
    \/ \E p \in Callers : Stage(p)
    \/ \E p \in Callers : ReturnVersion(p)

SpecRegister == InitRegister /\ [][NextRegister]_vars


(* ------------------------------------------------------------------ *)
(* Properties of register_model                                        *)
(* ------------------------------------------------------------------ *)
AlreadyExistsCodes == {"RESOURCE_ALREADY_EXISTS", "ALREADY_EXISTS"}

\* C10: a call makes at most one _create_model_version call, and makes it
\* only after create_registered_model succeeded or failed with
\* RESOURCE_ALREADY_EXISTS or ALREADY_EXISTS; an already-exists failure is
\* never the exception the call ends with, and a call that returns after it
\* has created a version; any other create_registered_model failure ends the
\* call with that exception and without a _create_model_version call.
C10_VersionAfterCreateOrExists ==
    \A p \in Callers :
      LET f == rm[p]
      IN  /\ f.mv_calls <= 1
          /\ f.version # 0 => f.mv_calls = 1
          /\ f.mv_calls = 1 => f.create_outcome \in ({"ok"} \cup AlreadyExistsCodes)
          /\ f.create_outcome \in AlreadyExistsCodes
             => /\ f.error \notin AlreadyExistsCodes
                /\ f.outcome = "returned" => f.version # 0
          /\ f.create_outcome \in (CreateErrors \ AlreadyExistsCodes)
             => /\ f.pc = "done" /\ f.outcome = "exception"
                /\ f.error = f.create_outcome
                /\ f.mv_calls = 0 /\ f.version = 0

\* create_registered_model failed with ALREADY_EXISTS and the call returned
\* the version it created
C10_Witness ==
    \E p \in Callers :
      /\ rm[p].create_outcome = "ALREADY_EXISTS"
      /\ rm[p].outcome = "returned"
      /\ rm[p].mv_calls = 1 /\ rm[p].version # 0


\* C11: a call on a runs:/ URI that found no MLmodel file among the run's
\* artifacts and no logged model of that name and run has ended with an
\* exception of error code NOT_FOUND, without a _create_model_version call
\* and without a version.
C11_NotFoundPropagates ==
    \A p \in Callers :
      LET f == rm[p]
      IN  (f.artifacts = "no MLmodel" /\ f.n_logged = 0)
          => /\ f.pc = "done" /\ f.outcome = "exception"
             /\ f.error = "NOT_FOUND"
             /\ f.mv_calls = 0 /\ f.version = 0

\* a runs:/ URI, nothing found for it: NOT_FOUND, and no version in the registry
C11_Witness ==
    \E p \in Callers :
      /\ is_runs_uri(rm[p].model_uri)
      /\ rm[p].artifacts = "no MLmodel" /\ rm[p].n_logged = 0
      /\ rm[p].error = "NOT_FOUND" /\ rm[p].outcome = "exception"
      /\ versions = 0

\* the entries of the MLFLOW_MODEL_VERSIONS tag of the logged model
TagEntries == IF mv_tag.set THEN json_loads(mv_tag) ELSE <<>>

\* every call made has come to its end
AllReturned == \A p \in Callers : rm[p].pc \in {"idle", "done"}

\* C15: once every call has returned, the MLFLOW_MODEL_VERSIONS tag of the
\* logged model holds a {name, version} entry for the version of every
\* call that returned with that model id, whether or not the calls
\* overlapped.
C15_EveryVersionTagged ==
    AllReturned =>
      \A p \in Callers :
        (rm[p].outcome = "returned" /\ rm[p].model_id = "m1")
        => \E i \in 1..Len(TagEntries) :
             TagEntries[i] = [name |-> "name", version |-> rm[p].version]

\* C17: when stage_model_for_databricks_model_serving raised, the call goes
\* on to return the version it created: it does not end with an exception,
\* and the version stays in the registry.
C17_StagingFailureAbsorbed ==
    \A p \in Callers :
      LET f == rm[p]
      IN  f.staged = "raise"
          => /\ f.env_pack = "databricks_model_serving"
             /\ f.pc \in {"return", "done"}
             /\ f.error = "none"
             /\ f.outcome = IF f.pc = "done" THEN "returned" ELSE "pending"
             /\ f.version # 0 /\ f.version <= versions

\* staging raised and the call returned its version
C17_Witness ==
    \E p \in Callers :
      /\ rm[p].env_pack = "databricks_model_serving"
      /\ rm[p].staged = "raise"
      /\ rm[p].outcome = "returned"
      /\ rm[p].version # 0 /\ rm[p].version <= versions

====
